---- MODULE Spec2Model ----
(***************************************************************************)
(* A model of the moksha mint core (moksha-mint/src/mint.rs) running on    *)
(* the key-value store of mint/src/database.rs.                            *)
(*                                                                         *)
(* Request handlers are tasks.  A task takes one step per suspension point *)
(* (.await on the store or on the Lightning backend); the synchronous code *)
(* between two suspension points belongs to the step that precedes it.     *)
(***************************************************************************)
EXTENDS Integers, Sequences, FiniteSets, TLC

(***************************************************************************)
(* Bounds of the model.                                                    *)
(***************************************************************************)
MaxProofs == 2
MaxOutputs == 2

Tasks == {"t1", "t2"}
Secrets == {"s1", "s2"}
Keys == {"k1", "k2"}

\* The Lightning backend creates at most MaxInvoices invoices; their payment
\* requests are numbered.
MaxInvoices == 2
PaymentRequests == 1..MaxInvoices

SeqsUpTo(S, n) == UNION {[1..k -> S] : k \in 0..n}

(***************************************************************************)
(* Keyset and BDHKE (moksha_core).  The curve group is modelled by the      *)
(* additive group of integers modulo GroupOrder, with generator 1.         *)
(***************************************************************************)
GroupOrder == 3
Points == 1..(GroupOrder - 1)

\* The denominations the modelled keyset holds a key for: 2^0 and 2^10.
Denominations == {1, 1024}

private_keys == [a \in Denominations |-> IF a = 1 THEN 1 ELSE 2]

HashToCurve(secret) == IF secret = "s1" THEN 1 ELSE 2

step2_bob(b_, private_key) == (private_key * b_) % GroupOrder

verify(private_key, c, secret) == c = (private_key * HashToCurve(secret)) % GroupOrder

(***************************************************************************)
(* Wire types.                                                             *)
(***************************************************************************)
\* A proof's amount is whatever the client declares.
ProofAmounts == Denominations
Proof == [amount : ProofAmounts, secret : Secrets, c : Points]

\* 3 is not a denomination of the keyset.
OutputAmounts == Denominations \cup {3}
BlindedMessage == [amount : OutputAmounts, b_ : Points]

NoInvoice == [amount |-> 0, payment_request |-> 0]
InvoiceAmounts == {1, 2}
Invoice == [amount : InvoiceAmounts, payment_request : PaymentRequests]

\* An outgoing payment request as melt sees it through decode_invoice:
\* "garbage" does not decode, "noamount" decodes to an invoice without an
\* amount, the others decode to the amount_milli_satoshis given.
MeltInvoices == {"garbage", "noamount", "0msat", "1000msat"}
decode_ok(pr) == pr # "garbage"
has_amount(pr) == pr \in {"0msat", "1000msat"}
amount_milli_satoshis(pr) == IF pr = "1000msat" THEN 1000 ELSE 0

RECURSIVE total_amount(_)
total_amount(xs) ==
    IF xs = <<>> THEN 0 ELSE Head(xs).amount + total_amount(Tail(xs))

SecretsOf(proofs) == {proofs[i].secret : i \in DOMAIN proofs}

\* Proof equality as used by Vec::contains.
ProofEq(p, q) == p.secret = q.secret

(***************************************************************************)
(* LightningFeeConfig::default and Mint::fee_reserve.                      *)
(***************************************************************************)
fee_percent == 1
fee_reserve_min == 4000

Max(a, b) == IF a >= b THEN a ELSE b

(***************************************************************************)
(* f64 arithmetic as fee_reserve uses it.  A non-negative f64 is a record  *)
(* [m, e] standing for m * 2^e, with m a natural number of at most         *)
(* F64Precision bits.  Natural numbers too wide for the model's integers   *)
(* are sequences of limbs of LimbBits bits, lowest limb first.             *)
(***************************************************************************)
F64Precision == 53
LimbBits == 8
Limb == 2^LimbBits

RECURSIVE ToLimbs(_)
ToLimbs(n) == IF n = 0 THEN <<>> ELSE <<n % Limb>> \o ToLimbs(n \div Limb)

RECURSIVE FromLimbs(_)
FromLimbs(ls) == IF ls = <<>> THEN 0 ELSE Head(ls) + Limb * FromLimbs(Tail(ls))

\* ls without its high zero limbs.
Trim(ls) ==
    LET used == {i \in DOMAIN ls : ls[i] # 0}
    IN  IF used = {} THEN <<>>
        ELSE SubSeq(ls, 1, CHOOSE i \in used : \A j \in used : j <= i)

\* The number of bits of ls, which has no high zero limb.
BitLength(ls) ==
    IF ls = <<>> THEN 0
    ELSE LimbBits * (Len(ls) - 1)
         + (CHOOSE k \in 1..LimbBits : 2^(k - 1) <= ls[Len(ls)] /\ ls[Len(ls)] < 2^k)

\* ls + 1
RECURSIVE Inc(_)
Inc(ls) ==
    IF ls = <<>> THEN <<1>>
    ELSE IF Head(ls) < Limb - 1 THEN <<Head(ls) + 1>> \o Tail(ls)
    ELSE <<0>> \o Inc(Tail(ls))

\* ls * a + carry
RECURSIVE MulSmall(_, _, _)
MulSmall(ls, a, carry) ==
    IF ls = <<>> THEN ToLimbs(carry)
    ELSE LET t == Head(ls) * a + carry
         IN  <<t % Limb>> \o MulSmall(Tail(ls), a, t \div Limb)

\* The n limbs of floor(rem * Limb^n / d), for rem < d.
RECURSIVE LongDiv(_, _, _)
LongDiv(rem, d, n) ==
    IF n = 0 THEN <<>>
    ELSE LongDiv((Limb * rem) % d, d, n - 1) \o <<(Limb * rem) \div d>>

\* rem * Limb^n modulo d
RECURSIVE LongRem(_, _, _)
LongRem(rem, d, n) == IF n = 0 THEN rem ELSE LongRem((Limb * rem) % d, d, n - 1)

\* floor(ls / 2^n)
ShiftRight(ls, n) ==
    LET rest == SubSeq(ls, n \div LimbBits + 1, Len(ls))
        s == n % LimbBits
    IN  Trim([i \in DOMAIN rest |->
                 rest[i] \div 2^s
                 + (IF i < Len(rest) THEN (rest[i + 1] % 2^s) * 2^(LimbBits - s)
                    ELSE 0)])

\* ls modulo 2^n
LowBits(ls, n) ==
    Trim([i \in 1..(n \div LimbBits + 1) |->
             IF i > Len(ls) THEN 0
             ELSE IF i <= n \div LimbBits THEN ls[i]
             ELSE ls[i] % 2^(n % LimbBits)])

\* Rounding to nearest, ties to even, of (ls + a fraction that is not zero
\* iff sticky) * 2^e.
round_f64(ls, sticky, e) ==
    LET l == Trim(ls)
        drop == BitLength(l) - F64Precision
    IN  IF drop <= 0 THEN [m |-> l, e |-> e]
        ELSE LET kept == ShiftRight(l, drop)
                 guard == ShiftRight(l, drop - 1)[1] % 2 = 1
                 low == LowBits(l, drop - 1) # <<>>
                 up == guard /\ (sticky \/ low \/ kept[1] % 2 = 1)
             IN  [m |-> IF up THEN Inc(kept) ELSE kept, e |-> e + drop]

\* n as f64 / d as f64, for natural numbers n and d in 1..Limb.
f64_div(n, d) ==
    LET limbs == F64Precision \div LimbBits + 3
    IN  round_f64(LongDiv(n % d, d, limbs) \o ToLimbs(n \div d),
                  LongRem(n % d, d, limbs) # 0, 0 - LimbBits * limbs)

\* a as f64 * x, for a natural number a that f64 holds.
f64_mul(a, x) == round_f64(MulSmall(x.m, a, 0), FALSE, x.e)

\* x as u64: the fraction is cut off.
f64_as_u64(x) ==
    IF x.e >= 0 THEN FromLimbs(x.m) * 2^x.e
    ELSE FromLimbs(ShiftRight(x.m, 0 - x.e))

(***************************************************************************)
(* Mint::create_blinded_signatures.  keyset.private_keys.get(..).unwrap()  *)
(* panics on an amount the keyset has no key for.                          *)
(***************************************************************************)
signatures_panic(blinded_messages) ==
    \E i \in DOMAIN blinded_messages :
        blinded_messages[i].amount \notin DOMAIN private_keys

create_blinded_signatures(blinded_messages) ==
    [i \in DOMAIN blinded_messages |->
        [amount |-> blinded_messages[i].amount,
         c_ |-> step2_bob(blinded_messages[i].b_,
                          private_keys[blinded_messages[i].amount])]]

\* A faulty check that finds no duplicate.
has_duplicate_pubkeys_never(outputs) == FALSE

\* !outputs.iter().all(move |x| uniq.insert(x.b_))
has_duplicate_pubkeys(outputs) ==
    \E i, j \in DOMAIN outputs : i # j /\ outputs[i].b_ = outputs[j].b_

(***************************************************************************)
(* Database (mint/src/database.rs): one value per DbKeyPrefix.             *)
(***************************************************************************)
\* put_serialized(UsedProofs, proofs): the value under the key is replaced.
add_used_proofs(stored, proofs) == proofs

get_used_proofs(stored) == stored

NoInvoices == [k \in Keys |-> NoInvoice]

get_pending_invoices(stored) == stored

\* A faulty lookup: a missing key yields the default invoice instead of
\* InvoiceNotFound.
pending_invoice_found_default(invoices, key) == TRUE

\* invoices.get(&key): FALSE stands for InvoiceNotFound.
pending_invoice_found(invoices, key) == invoices[key] # NoInvoice

\* A faulty insert that keeps no other key.
insert_invoice_alone(invoices, key, invoice) ==
    [k \in Keys |-> IF k = key THEN invoice ELSE NoInvoice]

\* invoices.insert(key, invoice)
insert_invoice(invoices, key, invoice) == [invoices EXCEPT ![key] = invoice]

\* A faulty remove that clears the map.
remove_invoice_all(invoices, key) == NoInvoices

\* invoices.remove(key)
remove_invoice(invoices, key) == [invoices EXCEPT ![key] = NoInvoice]

\* A faulty check_used_proofs: a spent proof is recognised only when the
\* presented proof agrees with it in every field.
check_used_proofs_whole(used_proofs, proofs) ==
    \E i \in DOMAIN used_proofs :
        \E j \in DOMAIN proofs : proofs[j] = used_proofs[i]

\* Mint::check_used_proofs: TRUE stands for Err(ProofAlreadyUsed).
check_used_proofs(used_proofs, proofs) ==
    \E i \in DOMAIN used_proofs :
        \E j \in DOMAIN proofs : ProofEq(proofs[j], used_proofs[i])

(***************************************************************************)
(* State.                                                                  *)
(***************************************************************************)
VARIABLES
    db_used_proofs,       \* the value stored under DbKeyPrefix::UsedProofs
    db_pending_invoices,  \* the value stored under DbKeyPrefix::PendingInvoices
    ln_issued,            \* payment requests the backend has created
    ln_settled,           \* payment requests the backend reports as paid
    task,                 \* each request handler: position, arguments, locals
    ever_spent,           \* history: secrets of every committed add_used_proofs
    redeemed,             \* history: keys minted with no create_invoice since
    lightning_fee_config, \* Mint::lightning_fee_config
    ledger                \* history: totals of the value the mint has moved

vars == <<db_used_proofs, db_pending_invoices, ln_issued, ln_settled, task,
          ever_spent, redeemed, lightning_fee_config, ledger>>

\* The ledger is an audit of the calls that move value: it adds up the
\* amounts of the signatures they return, of the invoices they redeem and
\* of the proofs they write to the spent set, over the first calls that
\* commit while an audit runs; left counts the calls still to be audited.
MaxAudited == 2

NoAudit == [left |-> 0, issued |-> 0, redeemed |-> 0, spent |-> 0]

Audit(l, issued_amount, redeemed_amount, spent_amount) ==
    IF l.left = 0 THEN l
    ELSE [left |-> l.left - 1,
          issued |-> l.issued + issued_amount,
          redeemed |-> l.redeemed + redeemed_amount,
          spent |-> l.spent + spent_amount]

\* Mint::fee_reserve.  fee_percent is an f32; the model holds the f32 values
\* that are whole numbers, which "as f64" keeps as they are.
fee_reserve(amount_msat) ==
    LET fee_percent_f64 == f64_div(lightning_fee_config.fee_percent, 100)
        fee_reserve_u64 == f64_as_u64(f64_mul(amount_msat, fee_percent_f64))
    IN  Max(fee_reserve_u64, lightning_fee_config.fee_reserve_min)

IdleTask ==
    [pc |-> "idle", op |-> "none",
     proofs |-> <<>>, outputs |-> <<>>, pr |-> "none", key |-> "none",
     amount |-> 0, fee |-> 0, parts |-> <<>>,
     invoice |-> NoInvoice, invoices |-> NoInvoices,
     reply |-> "none", wrote |-> FALSE, fresh |-> FALSE, overlap |-> {},
     status |-> "none", promises |-> <<>>]

\* An empty store, no invoice issued, every handler idle.
InitStore ==
    /\ db_used_proofs = <<>>
    /\ db_pending_invoices = NoInvoices
    /\ ln_issued = {}
    /\ ln_settled = {}
    /\ task = [t \in Tasks |-> IdleTask]
    /\ ever_spent = {}
    /\ redeemed = {}

\* The mint with LightningFeeConfig::default().
Init ==
    /\ InitStore
    /\ lightning_fee_config =
           [fee_percent |-> fee_percent, fee_reserve_min |-> fee_reserve_min]
    /\ ledger = NoAudit

InFlight(t) == task[t].pc \notin {"idle", "done"}

\* Task t starts the call described by rec; the calls in flight overlap it.
Begin(t, rec) ==
    task' = [u \in Tasks |->
        IF u = t THEN [rec EXCEPT !.overlap = {v \in Tasks : InFlight(v)}]
        ELSE IF InFlight(u) THEN [task[u] EXCEPT !.overlap = @ \cup {t}]
        ELSE task[u]]

Finish(rec, status, promises) ==
    [rec EXCEPT !.pc = "done", !.status = status, !.promises = promises]

(***************************************************************************)
(* Mint::swap.                                                             *)
(***************************************************************************)
\* A faulty swap that does not compare the two totals.
swap_checks_unbalanced(used_proofs, proofs, blinded_messages) ==
    IF check_used_proofs(used_proofs, proofs) THEN "ProofAlreadyUsed"
    ELSE IF has_duplicate_pubkeys(blinded_messages) THEN "SwapHasDuplicatePromises"
    ELSE IF signatures_panic(blinded_messages) THEN "panic"
    ELSE "continue"

\* The outcome of swap's synchronous part, given the snapshot of the spent
\* set that check_used_proofs read; "continue" means add_used_proofs is next.
swap_checks(used_proofs, proofs, blinded_messages) ==
    IF check_used_proofs(used_proofs, proofs) THEN "ProofAlreadyUsed"
    ELSE IF has_duplicate_pubkeys(blinded_messages) THEN "SwapHasDuplicatePromises"
    ELSE IF signatures_panic(blinded_messages) THEN "panic"
    ELSE IF total_amount(proofs) # total_amount(create_blinded_signatures(blinded_messages))
         THEN "SwapAmountMismatch"
    ELSE "continue"

\* swap up to its await of add_used_proofs.
SwapCheck(t, proofs, blinded_messages) ==
    /\ task[t].pc = "idle"
    /\ LET used == get_used_proofs(db_used_proofs)
           outcome == swap_checks(used, proofs, blinded_messages)
           rec == [IdleTask EXCEPT !.op = "swap", !.proofs = proofs,
                                   !.outputs = blinded_messages,
                                   !.fresh = (SecretsOf(proofs) \cap ever_spent = {})]
       IN  IF outcome = "continue"
           THEN Begin(t, [rec EXCEPT !.pc = "swap_add",
                              !.promises = create_blinded_signatures(blinded_messages)])
           ELSE Begin(t, Finish(rec, outcome, <<>>))
    /\ UNCHANGED <<db_used_proofs, db_pending_invoices, ln_issued, ln_settled, ever_spent, redeemed, lightning_fee_config, ledger>>

\* self.db.add_used_proofs(proofs).await?; Ok(promises)
SwapAdd(t, db_ok) ==
    /\ task[t].pc = "swap_add"
    /\ IF db_ok
       THEN /\ db_used_proofs' = add_used_proofs(db_used_proofs, task[t].proofs)
            /\ ever_spent' = ever_spent \cup SecretsOf(task[t].proofs)
            /\ task' = [task EXCEPT ![t] =
                            Finish([@ EXCEPT !.wrote = TRUE], "Ok", @.promises)]
            /\ ledger' = Audit(ledger, total_amount(task[t].promises), 0,
                               total_amount(task[t].proofs))
       ELSE /\ task' = [task EXCEPT ![t] = Finish(@, "StorageError", <<>>)]
            /\ UNCHANGED <<db_used_proofs, ever_spent, ledger>>
    /\ UNCHANGED <<db_pending_invoices, ln_issued, ln_settled, redeemed, lightning_fee_config>>

(***************************************************************************)
(* Mint::melt.                                                             *)
(***************************************************************************)
\* The outcome of melt up to its await of pay_invoice, given the snapshot of
\* the spent set that check_used_proofs read; "continue" means pay_invoice
\* is next.
melt_checks(used_proofs, payment_request, proofs) ==
    IF ~decode_ok(payment_request) THEN "InvalidInvoice"
    ELSE IF check_used_proofs(used_proofs, proofs) THEN "ProofAlreadyUsed"
    ELSE IF ~has_amount(payment_request) THEN "panic"
    ELSE IF amount_milli_satoshis(payment_request) < (total_amount(proofs) \div 1000)
         THEN "InvoiceAmountTooLow"
    ELSE "continue"

\* melt up to its await of pay_invoice: decode_invoice, check_used_proofs
\* and the amount comparison.
MeltCheck(t, payment_request, proofs, blinded_messages) ==
    /\ task[t].pc = "idle"
    /\ LET used == get_used_proofs(db_used_proofs)
           outcome == melt_checks(used, payment_request, proofs)
           rec == [IdleTask EXCEPT !.op = "melt", !.proofs = proofs,
                                   !.outputs = blinded_messages,
                                   !.pr = payment_request,
                                   !.fresh = (SecretsOf(proofs) \cap ever_spent = {})]
       IN  IF outcome = "continue"
           THEN Begin(t, [rec EXCEPT !.pc = "melt_pay"])
           ELSE Begin(t, Finish(rec, outcome, <<>>))
    /\ UNCHANGED <<db_used_proofs, db_pending_invoices, ln_issued, ln_settled, ever_spent, redeemed, lightning_fee_config, ledger>>

\* A faulty melt that drops the backend's error.
melt_pay_check_ignored(ln_ok) == "continue"

\* The outcome of melt after pay_invoice returned: the ? operator returns
\* the backend's error; "continue" means add_used_proofs is next.
melt_pay_check(ln_ok) == IF ~ln_ok THEN "Lightning" ELSE "continue"

\* A faulty melt that marks the proofs spent in the step that pays, before
\* it awaits add_used_proofs.
MeltPaySpend(t, ln_ok) ==
    /\ task[t].pc = "melt_pay"
    /\ task' = [task EXCEPT ![t] =
            IF ln_ok THEN [@ EXCEPT !.pc = "melt_add", !.reply = "paid"]
            ELSE Finish([@ EXCEPT !.reply = "error"], "Lightning", <<>>)]
    /\ db_used_proofs' = IF ln_ok THEN add_used_proofs(db_used_proofs, task[t].proofs)
                         ELSE db_used_proofs
    /\ UNCHANGED <<db_pending_invoices, ln_issued, ln_settled, ever_spent, redeemed, lightning_fee_config, ledger>>

\* let result = self.lightning.pay_invoice(payment_request).await?;
\* reply records what the backend answered: "paid" or "error".
MeltPay(t, ln_ok) ==
    /\ task[t].pc = "melt_pay"
    /\ LET rec == [task[t] EXCEPT !.reply = IF ln_ok THEN "paid" ELSE "error"]
       IN  task' = [task EXCEPT ![t] =
                IF melt_pay_check(ln_ok) = "continue"
                THEN [rec EXCEPT !.pc = "melt_add"]
                ELSE Finish(rec, melt_pay_check(ln_ok), <<>>)]
    /\ UNCHANGED <<db_used_proofs, db_pending_invoices, ln_issued, ln_settled, ever_spent, redeemed, lightning_fee_config, ledger>>

\* The outcome of melt after add_used_proofs has returned Ok.
melt_change(blinded_messages) ==
    IF signatures_panic(blinded_messages) THEN <<"panic", <<>> >>
    ELSE <<"Ok", create_blinded_signatures(blinded_messages)>>

\* self.db.add_used_proofs(proofs).await?; then the change signatures and
\* Ok((true, result.payment_hash, change)).
MeltAdd(t, db_ok) ==
    /\ task[t].pc = "melt_add"
    /\ IF db_ok
       THEN /\ db_used_proofs' = add_used_proofs(db_used_proofs, task[t].proofs)
            /\ ever_spent' = ever_spent \cup SecretsOf(task[t].proofs)
            /\ LET out == melt_change(task[t].outputs)
               IN  /\ task' = [task EXCEPT ![t] =
                            Finish([@ EXCEPT !.wrote = TRUE], out[1], out[2])]
                   /\ ledger' = Audit(ledger, total_amount(out[2]), 0,
                                      total_amount(task[t].proofs))
       ELSE /\ task' = [task EXCEPT ![t] = Finish(@, "StorageError", <<>>)]
            /\ UNCHANGED <<db_used_proofs, ever_spent, ledger>>
    /\ UNCHANGED <<db_pending_invoices, ln_issued, ln_settled, redeemed, lightning_fee_config>>

(***************************************************************************)
(* Mint::create_invoice.                                                   *)
(***************************************************************************)
\* A faulty create_invoice that drops the backend's error and goes on to
\* persist an invoice without a payment request.
CreateInvoiceLnUnchecked(t, key, amount, pr) ==
    /\ task[t].pc = "idle"
    /\ pr \in {0} \cup (PaymentRequests \ ln_issued)
    /\ Begin(t, [IdleTask EXCEPT !.op = "create_invoice", !.key = key,
                                 !.amount = amount, !.pc = "create_read",
                                 !.invoice = [amount |-> amount, payment_request |-> pr]])
    /\ ln_issued' = ln_issued \cup ({pr} \ {0})
    /\ redeemed' = redeemed \ {key}
    /\ UNCHANGED <<db_used_proofs, db_pending_invoices, ln_settled, ever_spent, lightning_fee_config, ledger>>

\* let pr = self.lightning.create_invoice(amount).await?.payment_request;
\* pr = 0 stands for the backend failing.
CreateInvoiceLn(t, key, amount, pr) ==
    /\ task[t].pc = "idle"
    /\ pr \in {0} \cup (PaymentRequests \ ln_issued)
    /\ LET rec == [IdleTask EXCEPT !.op = "create_invoice", !.key = key,
                                   !.amount = amount]
       IN  IF pr = 0
           THEN /\ Begin(t, Finish(rec, "Lightning", <<>>))
                /\ UNCHANGED ln_issued
           ELSE /\ Begin(t, [rec EXCEPT !.pc = "create_read",
                                 !.invoice = [amount |-> amount, payment_request |-> pr]])
                /\ ln_issued' = ln_issued \cup {pr}
    /\ redeemed' = redeemed \ {key}
    /\ UNCHANGED <<db_used_proofs, db_pending_invoices, ln_settled, ever_spent, lightning_fee_config, ledger>>

\* Database::add_pending_invoice, its read: self.get_pending_invoices()
CreateInvoiceRead(t) ==
    /\ task[t].pc = "create_read"
    /\ task' = [task EXCEPT ![t] =
            [@ EXCEPT !.pc = "create_write",
                      !.invoices = get_pending_invoices(db_pending_invoices)]]
    /\ UNCHANGED <<db_used_proofs, db_pending_invoices, ln_issued, ln_settled, ever_spent, redeemed, lightning_fee_config, ledger>>

\* Database::add_pending_invoice, its write: invoices.insert(key, invoice);
\* self.put_serialized(PendingInvoices, &invoices); then Ok((pr, key)).
CreateInvoiceWrite(t, db_ok) ==
    /\ task[t].pc = "create_write"
    /\ IF db_ok
       THEN /\ db_pending_invoices' =
                    insert_invoice(task[t].invoices, task[t].key, task[t].invoice)
            /\ task' = [task EXCEPT ![t] =
                            Finish([@ EXCEPT !.wrote = TRUE], "Ok", <<>>)]
       ELSE /\ task' = [task EXCEPT ![t] = Finish(@, "StorageError", <<>>)]
            /\ UNCHANGED db_pending_invoices
    /\ redeemed' = redeemed \ {task[t].key}
    /\ UNCHANGED <<db_used_proofs, ln_issued, ln_settled, ever_spent, lightning_fee_config, ledger>>

\* The payer settles an invoice the backend has created.
LnSettle(pr) ==
    /\ pr \in ln_issued \ ln_settled
    /\ ln_settled' = ln_settled \cup {pr}
    /\ UNCHANGED <<db_used_proofs, db_pending_invoices, ln_issued, task, ever_spent, redeemed, lightning_fee_config, ledger>>

(***************************************************************************)
(* Mint::mint_tokens.                                                      *)
(***************************************************************************)
\* let invoice = self.db.get_pending_invoice(key.clone()).await?;
MintGet(t, key, outputs) ==
    /\ task[t].pc = "idle"
    /\ LET invoices == get_pending_invoices(db_pending_invoices)
           rec == [IdleTask EXCEPT !.op = "mint_tokens", !.key = key,
                                   !.outputs = outputs]
       IN  IF pending_invoice_found(invoices, key)
           THEN Begin(t, [rec EXCEPT !.pc = "mint_paid", !.invoice = invoices[key]])
           ELSE Begin(t, Finish(rec, "InvoiceNotFound", <<>>))
    /\ UNCHANGED <<db_used_proofs, db_pending_invoices, ln_issued, ln_settled, ever_spent, redeemed, lightning_fee_config, ledger>>

\* A faulty mint_tokens that does not look at is_paid.
mint_paid_check_ignored(is_paid) == "continue"

\* The outcome of mint_tokens after is_invoice_paid returned Ok(is_paid);
\* "continue" means delete_pending_invoice is next.
mint_paid_check(is_paid) == IF ~is_paid THEN "InvoiceNotPaidYet" ELSE "continue"

\* let is_paid = self.lightning.is_invoice_paid(..).await?; if !is_paid {..}
\* reply records what the backend answered: "true", "false" or "error".
MintIsPaid(t, ln_ok) ==
    /\ task[t].pc = "mint_paid"
    /\ LET is_paid == task[t].invoice.payment_request \in ln_settled
           outcome == IF ln_ok THEN mint_paid_check(is_paid) ELSE "Lightning"
           rec == [task[t] EXCEPT !.reply = IF ~ln_ok THEN "error"
                                            ELSE IF is_paid THEN "true" ELSE "false"]
       IN  task' = [task EXCEPT ![t] =
                IF outcome = "continue" THEN [rec EXCEPT !.pc = "mint_delete_read"]
                ELSE Finish(rec, outcome, <<>>)]
    /\ UNCHANGED <<db_used_proofs, db_pending_invoices, ln_issued, ln_settled, ever_spent, redeemed, lightning_fee_config, ledger>>

\* Database::remove_pending_invoice, its read: self.get_pending_invoices()
MintDeleteRead(t) ==
    /\ task[t].pc = "mint_delete_read"
    /\ task' = [task EXCEPT ![t] =
            [@ EXCEPT !.pc = "mint_delete_write",
                      !.invoices = get_pending_invoices(db_pending_invoices)]]
    /\ UNCHANGED <<db_used_proofs, db_pending_invoices, ln_issued, ln_settled, ever_spent, redeemed, lightning_fee_config, ledger>>

\* The outcome of mint_tokens after delete_pending_invoice has returned Ok.
mint_signatures(outputs) ==
    IF signatures_panic(outputs) THEN <<"panic", <<>> >>
    ELSE <<"Ok", create_blinded_signatures(outputs)>>

\* Database::remove_pending_invoice, its write: invoices.remove(key);
\* self.put_serialized(PendingInvoices, &invoices); then
\* self.create_blinded_signatures(outputs, keyset).
MintDeleteWrite(t, db_ok) ==
    /\ task[t].pc = "mint_delete_write"
    /\ IF db_ok
       THEN /\ db_pending_invoices' = remove_invoice(task[t].invoices, task[t].key)
            /\ LET out == mint_signatures(task[t].outputs)
               IN  /\ task' = [task EXCEPT ![t] =
                             Finish([@ EXCEPT !.wrote = TRUE], out[1], out[2])]
                   /\ redeemed' = IF out[1] = "Ok" THEN redeemed \cup {task[t].key}
                                  ELSE redeemed
                   /\ ledger' = Audit(ledger, total_amount(out[2]),
                                      IF out[1] = "Ok" THEN task[t].invoice.amount
                                      ELSE 0,
                                      0)
       ELSE /\ task' = [task EXCEPT ![t] = Finish(@, "StorageError", <<>>)]
            /\ UNCHANGED <<db_pending_invoices, redeemed, ledger>>
    /\ UNCHANGED <<db_used_proofs, ln_issued, ln_settled, ever_spent, lightning_fee_config>>

(***************************************************************************)
(* Cancellation: the future of a swap or melt is dropped while it awaits   *)
(* add_used_proofs or pay_invoice.  Its locals, the signatures among them, *)
(* are dropped with it and the caller gets no response.                    *)
(***************************************************************************)
AwaitsInSpend == {"swap_add", "melt_pay", "melt_add"}

Cancel(t) ==
    /\ task[t].pc \in AwaitsInSpend
    /\ task' = [task EXCEPT ![t] = Finish(@, "Cancelled", <<>>)]
    /\ UNCHANGED <<db_used_proofs, db_pending_invoices, ln_issued, ln_settled, ever_spent, redeemed, lightning_fee_config, ledger>>

(***************************************************************************)
(* The caller takes the response; the handler is free for the next call.   *)
(***************************************************************************)
Return(t) ==
    /\ task[t].pc = "done"
    /\ task' = [task EXCEPT ![t] = IdleTask]
    /\ UNCHANGED <<db_used_proofs, db_pending_invoices, ln_issued, ln_settled, ever_spent, redeemed, lightning_fee_config, ledger>>

(***************************************************************************)
(* Requests.  The proofs a client presents carry a signature the mint made *)
(* on secret "s1" with the key of the declared amount; presented with      *)
(* another secret they are forged.                                         *)
(***************************************************************************)
ProofUniverse ==
    {p \in Proof : p.c = step2_bob(HashToCurve("s1"), private_keys[p.amount])}

ProofInputs == SeqsUpTo(ProofUniverse, MaxProofs)

SupportedMessages == {m \in BlindedMessage : m.amount \in Denominations}

OutputInputs == SeqsUpTo(SupportedMessages, MaxOutputs)

(***************************************************************************)
(* SpecSpend: swap and melt calls of one handler, one after the other,     *)
(* over every request of the bounds.                                       *)
(***************************************************************************)
Handler == "t1"

SpendSwapCheck ==
    /\ task[Handler].pc = "idle"
    /\ \E proofs \in ProofInputs, outputs \in OutputInputs :
           SwapCheck(Handler, proofs, outputs)

SpendSwapAdd == \E db_ok \in BOOLEAN : SwapAdd(Handler, db_ok)

SpendMeltCheck ==
    /\ task[Handler].pc = "idle"
    /\ \E pr \in MeltInvoices, proofs \in ProofInputs, outputs \in OutputInputs :
           MeltCheck(Handler, pr, proofs, outputs)

SpendMeltPay == \E ln_ok \in BOOLEAN : MeltPay(Handler, ln_ok)

SpendMeltAdd == \E db_ok \in BOOLEAN : MeltAdd(Handler, db_ok)

SpendReturn == Return(Handler)

NextSpend ==
    \/ SpendSwapCheck
    \/ SpendSwapAdd
    \/ SpendMeltCheck
    \/ SpendMeltPay
    \/ SpendMeltAdd
    \/ SpendReturn

SpecSpend == Init /\ [][NextSpend]_vars

(***************************************************************************)
(* SpecCancel: SpecSpend with calls that may be cancelled.                 *)
(***************************************************************************)
SpendCancel == Cancel(Handler)

NextCancel ==
    \/ SpendSwapCheck
    \/ SpendSwapAdd
    \/ SpendMeltCheck
    \/ SpendMeltPay
    \/ SpendMeltAdd
    \/ SpendCancel
    \/ SpendReturn

SpecCancel == Init /\ [][NextCancel]_vars

(***************************************************************************)
(* SpecMint: create_invoice and mint_tokens calls of one handler, one      *)
(* after the other, while payers settle invoices.                          *)
(***************************************************************************)
MintOutputInputs == SeqsUpTo(BlindedMessage, MaxOutputs)

MintCreateInvoiceLn ==
    /\ task[Handler].pc = "idle"
    /\ \E key \in Keys, amount \in InvoiceAmounts, pr \in {0} \cup PaymentRequests :
           CreateInvoiceLn(Handler, key, amount, pr)

MintCreateInvoiceRead == CreateInvoiceRead(Handler)

MintCreateInvoiceWrite == \E db_ok \in BOOLEAN : CreateInvoiceWrite(Handler, db_ok)

MintLnSettle == \E pr \in PaymentRequests : LnSettle(pr)

MintMintGet ==
    /\ task[Handler].pc = "idle"
    /\ \E key \in Keys, outputs \in MintOutputInputs : MintGet(Handler, key, outputs)

MintMintIsPaid == \E ln_ok \in BOOLEAN : MintIsPaid(Handler, ln_ok)

MintMintDeleteRead == MintDeleteRead(Handler)

MintMintDeleteWrite == \E db_ok \in BOOLEAN : MintDeleteWrite(Handler, db_ok)

MintReturn == Return(Handler)

NextMint ==
    \/ MintCreateInvoiceLn
    \/ MintCreateInvoiceRead
    \/ MintCreateInvoiceWrite
    \/ MintLnSettle
    \/ MintMintGet
    \/ MintMintIsPaid
    \/ MintMintDeleteRead
    \/ MintMintDeleteWrite
    \/ MintReturn

SpecMint == Init /\ [][NextMint]_vars

(***************************************************************************)
(* SpecSpendRace: swap and melt calls of all handlers, interleaved at      *)
(* their suspension points, over requests to pay 1000 msat or to swap,     *)
(* with at most one proof and at most one output (of blinded message 1).   *)
(***************************************************************************)
RaceProofInputs == SeqsUpTo(ProofUniverse, 1)

RaceOutputInputs == SeqsUpTo({m \in SupportedMessages : m.b_ = 1}, 1)

RaceMeltInvoices == {"1000msat"}

RaceSwapCheck ==
    \E t \in Tasks :
        /\ task[t].pc = "idle"
        /\ \E proofs \in RaceProofInputs, outputs \in RaceOutputInputs :
               SwapCheck(t, proofs, outputs)

RaceSwapAdd == \E t \in Tasks, db_ok \in BOOLEAN : SwapAdd(t, db_ok)

RaceMeltCheck ==
    \E t \in Tasks :
        /\ task[t].pc = "idle"
        /\ \E pr \in RaceMeltInvoices, proofs \in RaceProofInputs,
              outputs \in RaceOutputInputs :
               MeltCheck(t, pr, proofs, outputs)

RaceMeltPay == \E t \in Tasks, ln_ok \in BOOLEAN : MeltPay(t, ln_ok)

RaceMeltAdd == \E t \in Tasks, db_ok \in BOOLEAN : MeltAdd(t, db_ok)

RaceReturn == \E t \in Tasks : Return(t)

NextSpendRace ==
    \/ RaceSwapCheck
    \/ RaceSwapAdd
    \/ RaceMeltCheck
    \/ RaceMeltPay
    \/ RaceMeltAdd
    \/ RaceReturn

SpecSpendRace == Init /\ [][NextSpendRace]_vars

(***************************************************************************)
(* SpecMintRace: create_invoice and mint_tokens calls of all handlers,     *)
(* interleaved at their suspension points and at the store's reads and     *)
(* writes, over invoices of 1 sat and requests of at most one output.      *)
(***************************************************************************)
RaceInvoiceAmounts == {1}

RaceCreateInvoiceLn ==
    \E t \in Tasks :
        /\ task[t].pc = "idle"
        /\ \E key \in Keys, amount \in RaceInvoiceAmounts, pr \in {0} \cup PaymentRequests :
               CreateInvoiceLn(t, key, amount, pr)

RaceCreateInvoiceRead == \E t \in Tasks : CreateInvoiceRead(t)

RaceCreateInvoiceWrite == \E t \in Tasks, db_ok \in BOOLEAN : CreateInvoiceWrite(t, db_ok)

RaceLnSettle == \E pr \in PaymentRequests : LnSettle(pr)

RaceMintGet ==
    \E t \in Tasks :
        /\ task[t].pc = "idle"
        /\ \E key \in Keys, outputs \in RaceOutputInputs : MintGet(t, key, outputs)

RaceMintIsPaid == \E t \in Tasks, ln_ok \in BOOLEAN : MintIsPaid(t, ln_ok)

RaceMintDeleteRead == \E t \in Tasks : MintDeleteRead(t)

RaceMintDeleteWrite == \E t \in Tasks, db_ok \in BOOLEAN : MintDeleteWrite(t, db_ok)

NextMintRace ==
    \/ RaceCreateInvoiceLn
    \/ RaceCreateInvoiceRead
    \/ RaceCreateInvoiceWrite
    \/ RaceLnSettle
    \/ RaceMintGet
    \/ RaceMintIsPaid
    \/ RaceMintDeleteRead
    \/ RaceMintDeleteWrite
    \/ RaceReturn

SpecMintRace == Init /\ [][NextMintRace]_vars

(***************************************************************************)
(* SpecStore: the operations of Database called directly by one caller,    *)
(* one after the other.  They are synchronous functions: a call is one     *)
(* step.  db_ok = FALSE stands for the key-value store returning an error. *)
(***************************************************************************)
\* Database::add_used_proofs
StoreAddUsedProofs(t, proofs, db_ok) ==
    /\ LET rec == [IdleTask EXCEPT !.op = "add_used_proofs", !.proofs = proofs]
       IN  IF db_ok
           THEN /\ db_used_proofs' = add_used_proofs(db_used_proofs, proofs)
                /\ ever_spent' = ever_spent \cup SecretsOf(proofs)
                /\ Begin(t, Finish([rec EXCEPT !.wrote = TRUE], "Ok", <<>>))
           ELSE /\ Begin(t, Finish(rec, "StorageError", <<>>))
                /\ UNCHANGED <<db_used_proofs, ever_spent>>
    /\ UNCHANGED <<db_pending_invoices, ln_issued, ln_settled, redeemed, lightning_fee_config, ledger>>

\* Database::get_used_proofs; the task's proofs hold what it returned.
StoreGetUsedProofs(t) ==
    /\ Begin(t, Finish([IdleTask EXCEPT !.op = "get_used_proofs",
                                        !.proofs = get_used_proofs(db_used_proofs)],
                       "Ok", <<>>))
    /\ UNCHANGED <<db_used_proofs, db_pending_invoices, ln_issued, ln_settled, ever_spent, redeemed, lightning_fee_config, ledger>>

\* Database::add_pending_invoice; the task's invoices hold the map it read.
StoreAddPendingInvoice(t, key, invoice, db_ok) ==
    /\ LET invoices == get_pending_invoices(db_pending_invoices)
           rec == [IdleTask EXCEPT !.op = "add_pending_invoice", !.key = key,
                                   !.invoice = invoice, !.invoices = invoices]
       IN  IF db_ok
           THEN /\ db_pending_invoices' = insert_invoice(invoices, key, invoice)
                /\ Begin(t, Finish([rec EXCEPT !.wrote = TRUE], "Ok", <<>>))
           ELSE /\ Begin(t, Finish(rec, "StorageError", <<>>))
                /\ UNCHANGED db_pending_invoices
    /\ UNCHANGED <<db_used_proofs, ln_issued, ln_settled, ever_spent, redeemed, lightning_fee_config, ledger>>

\* Database::get_pending_invoice; the task's invoice holds what it returned.
StoreGetPendingInvoice(t, key) ==
    /\ LET invoices == get_pending_invoices(db_pending_invoices)
           rec == [IdleTask EXCEPT !.op = "get_pending_invoice", !.key = key,
                                   !.invoices = invoices]
       IN  IF pending_invoice_found(invoices, key)
           THEN Begin(t, Finish([rec EXCEPT !.invoice = invoices[key]], "Ok", <<>>))
           ELSE Begin(t, Finish(rec, "InvoiceNotFound", <<>>))
    /\ UNCHANGED <<db_used_proofs, db_pending_invoices, ln_issued, ln_settled, ever_spent, redeemed, lightning_fee_config, ledger>>

\* Database::remove_pending_invoice; the task's invoices hold the map it read.
StoreRemovePendingInvoice(t, key, db_ok) ==
    /\ LET invoices == get_pending_invoices(db_pending_invoices)
           rec == [IdleTask EXCEPT !.op = "remove_pending_invoice", !.key = key,
                                   !.invoices = invoices]
       IN  IF db_ok
           THEN /\ db_pending_invoices' = remove_invoice(invoices, key)
                /\ Begin(t, Finish([rec EXCEPT !.wrote = TRUE], "Ok", <<>>))
           ELSE /\ Begin(t, Finish(rec, "StorageError", <<>>))
                /\ UNCHANGED db_pending_invoices
    /\ UNCHANGED <<db_used_proofs, ln_issued, ln_settled, ever_spent, redeemed, lightning_fee_config, ledger>>

CallAddUsedProofs ==
    /\ task[Handler].pc = "idle"
    /\ \E proofs \in ProofInputs, db_ok \in BOOLEAN :
           StoreAddUsedProofs(Handler, proofs, db_ok)

CallGetUsedProofs ==
    /\ task[Handler].pc = "idle"
    /\ StoreGetUsedProofs(Handler)

CallAddPendingInvoice ==
    /\ task[Handler].pc = "idle"
    /\ \E key \in Keys, invoice \in Invoice, db_ok \in BOOLEAN :
           StoreAddPendingInvoice(Handler, key, invoice, db_ok)

CallGetPendingInvoice ==
    /\ task[Handler].pc = "idle"
    /\ \E key \in Keys : StoreGetPendingInvoice(Handler, key)

CallRemovePendingInvoice ==
    /\ task[Handler].pc = "idle"
    /\ \E key \in Keys, db_ok \in BOOLEAN :
           StoreRemovePendingInvoice(Handler, key, db_ok)

CallReturn == Return(Handler)

NextStore ==
    \/ CallAddUsedProofs
    \/ CallGetUsedProofs
    \/ CallAddPendingInvoice
    \/ CallGetPendingInvoice
    \/ CallRemovePendingInvoice
    \/ CallReturn

SpecStore == Init /\ [][NextStore]_vars

(***************************************************************************)
(* SpecFee: fee_reserve called on mints of every fee configuration of the  *)
(* bounds.                                                                 *)
(***************************************************************************)
MaxFeePercent == 100
FeePercents == 0..MaxFeePercent

FeeReserveMins == {0, fee_reserve_min}

\* The amounts asked for: multiples of 50 msat, the 10000 msat of
\* test_fee_reserve and an amount whose fee exceeds the default minimum.
MaxFeeSteps == 4
FeeAmounts == {50 * k : k \in 0..MaxFeeSteps} \cup {10000, 13800}

InitFee ==
    /\ InitStore
    /\ lightning_fee_config \in
           [fee_percent : FeePercents, fee_reserve_min : FeeReserveMins]
    /\ ledger = NoAudit

\* mint.fee_reserve(amount_msat); the task's fee holds what it returned.
FeeReserve(t, amount_msat) ==
    /\ Begin(t, Finish([IdleTask EXCEPT !.op = "fee_reserve",
                                        !.amount = amount_msat,
                                        !.fee = fee_reserve(amount_msat)],
                       "Ok", <<>>))
    /\ UNCHANGED <<db_used_proofs, db_pending_invoices, ln_issued, ln_settled, ever_spent, redeemed, lightning_fee_config, ledger>>

CallFeeReserve ==
    /\ task[Handler].pc = "idle"
    /\ \E amount_msat \in FeeAmounts : FeeReserve(Handler, amount_msat)

FeeReturn == Return(Handler)

NextFee ==
    \/ CallFeeReserve
    \/ FeeReturn

SpecFee == InitFee /\ [][NextFee]_vars

(***************************************************************************)
(* The wallet's split_amount (wallet/src/main.rs) and SpecSplit: it is     *)
(* called on every amount up to MaxSplitAmount.                            *)
(***************************************************************************)
\* format!("{:b}", amount): the binary digits, highest first; "0" for 0.
RECURSIVE format_b(_)
format_b(amount) ==
    IF amount < 2 THEN <<IF amount = 1 THEN "1" ELSE "0">>
    ELSE format_b(amount \div 2) \o <<IF amount % 2 = 1 THEN "1" ELSE "0">>

\* .rev()
rev(chars) == [i \in 1..Len(chars) |-> chars[Len(chars) + 1 - i]]

\* .enumerate().filter_map(|(i, c)| if c == '1' { Some(2_u64.pow(i)) } ..)
\* .collect(); enumerate counts from 0.
powers_of_ones(chars) ==
    LET places == SelectSeq([i \in 1..Len(chars) |-> i], LAMBDA i : chars[i] = "1")
    IN  [j \in 1..Len(places) |-> 2^(places[j] - 1)]

\* A faulty split_amount that does not reverse the digits.
split_amount_forward(amount) == powers_of_ones(format_b(amount))

split_amount(amount) == powers_of_ones(rev(format_b(amount)))

MaxSplitAmount == 255

\* split_amount(amount); the task's parts hold what it returned.
SplitAmount(t, amount) ==
    /\ Begin(t, Finish([IdleTask EXCEPT !.op = "split_amount", !.amount = amount,
                                        !.parts = split_amount(amount)],
                       "Ok", <<>>))
    /\ UNCHANGED <<db_used_proofs, db_pending_invoices, ln_issued, ln_settled, ever_spent, redeemed, lightning_fee_config, ledger>>

CallSplitAmount ==
    /\ task[Handler].pc = "idle"
    /\ \E amount \in 0..MaxSplitAmount : SplitAmount(Handler, amount)

SplitReturn == Return(Handler)

NextSplit ==
    \/ CallSplitAmount
    \/ SplitReturn

SpecSplit == Init /\ [][NextSplit]_vars

(***************************************************************************)
(* SpecLedger: create_invoice, mint_tokens, swap and melt calls of one     *)
(* handler, one after the other, under an audit of MaxAudited calls; the   *)
(* requests are those of the race specifications, for key "k1".            *)
(***************************************************************************)
InitLedger ==
    /\ InitStore
    /\ lightning_fee_config =
           [fee_percent |-> fee_percent, fee_reserve_min |-> fee_reserve_min]
    /\ ledger = [NoAudit EXCEPT !.left = MaxAudited]

LedgerCreateInvoiceLn ==
    /\ task[Handler].pc = "idle"
    /\ \E amount \in RaceInvoiceAmounts, pr \in {0} \cup PaymentRequests :
           CreateInvoiceLn(Handler, "k1", amount, pr)

LedgerCreateInvoiceRead == CreateInvoiceRead(Handler)

LedgerCreateInvoiceWrite == \E db_ok \in BOOLEAN : CreateInvoiceWrite(Handler, db_ok)

LedgerLnSettle == \E pr \in PaymentRequests : LnSettle(pr)

LedgerMintGet ==
    /\ task[Handler].pc = "idle"
    /\ \E outputs \in RaceOutputInputs : MintGet(Handler, "k1", outputs)

LedgerMintIsPaid == \E ln_ok \in BOOLEAN : MintIsPaid(Handler, ln_ok)

LedgerMintDeleteRead == MintDeleteRead(Handler)

LedgerMintDeleteWrite == \E db_ok \in BOOLEAN : MintDeleteWrite(Handler, db_ok)

LedgerSwapCheck ==
    /\ task[Handler].pc = "idle"
    /\ \E proofs \in RaceProofInputs, outputs \in RaceOutputInputs :
           SwapCheck(Handler, proofs, outputs)

LedgerSwapAdd == \E db_ok \in BOOLEAN : SwapAdd(Handler, db_ok)

LedgerMeltCheck ==
    /\ task[Handler].pc = "idle"
    /\ \E pr \in RaceMeltInvoices, proofs \in RaceProofInputs,
          outputs \in RaceOutputInputs :
           MeltCheck(Handler, pr, proofs, outputs)

LedgerMeltPay == \E ln_ok \in BOOLEAN : MeltPay(Handler, ln_ok)

LedgerMeltAdd == \E db_ok \in BOOLEAN : MeltAdd(Handler, db_ok)

LedgerReturn == Return(Handler)

NextLedger ==
    \/ LedgerCreateInvoiceLn
    \/ LedgerCreateInvoiceRead
    \/ LedgerCreateInvoiceWrite
    \/ LedgerLnSettle
    \/ LedgerMintGet
    \/ LedgerMintIsPaid
    \/ LedgerMintDeleteRead
    \/ LedgerMintDeleteWrite
    \/ LedgerSwapCheck
    \/ LedgerSwapAdd
    \/ LedgerMeltCheck
    \/ LedgerMeltPay
    \/ LedgerMeltAdd
    \/ LedgerReturn

SpecLedger == InitLedger /\ [][NextLedger]_vars

(***************************************************************************)
(* Properties.                                                             *)
(***************************************************************************)
Range(xs) == {xs[i] : i \in DOMAIN xs}

Spending(t) == task[t].op \in {"swap", "melt"}

\* C1: of two swap calls that overlap in time, share a secret unspent when
\* they started and are otherwise well-formed, exactly one returns success
\* and the other returns ProofAlreadyUsed.
C1_ConcurrentSwapsOneSuccess ==
    \A t, u \in Tasks :
        ( /\ t # u
          /\ task[t].op = "swap" /\ task[u].op = "swap"
          /\ task[t].pc = "done" /\ task[u].pc = "done"
          /\ u \in task[t].overlap
          /\ task[t].fresh /\ task[u].fresh
          /\ SecretsOf(task[t].proofs) \cap SecretsOf(task[u].proofs) # {}
          /\ task[t].status \in {"Ok", "ProofAlreadyUsed"}
          /\ task[u].status \in {"Ok", "ProofAlreadyUsed"} )
        => \/ task[t].status = "Ok" /\ task[u].status = "ProofAlreadyUsed"
           \/ task[u].status = "Ok" /\ task[t].status = "ProofAlreadyUsed"

\* C2: a swap or melt (of a payment request that decodes) that started after
\* an add_used_proofs holding one of its secrets had committed fails with
\* ProofAlreadyUsed: it never gets past check_used_proofs.
C2_SpentSecretStaysSpent ==
    \A t \in Tasks :
        ( /\ Spending(t)
          /\ ~task[t].fresh
          /\ task[t].op = "melt" => decode_ok(task[t].pr) )
        => task[t].pc = "done" /\ task[t].status = "ProofAlreadyUsed"

C4_SwapConservesValue ==
    \A t \in Tasks :
        task[t].op = "swap" =>
            LET balanced == total_amount(task[t].proofs) = total_amount(task[t].outputs)
            IN  /\ (task[t].pc = "swap_add" \/ task[t].status = "Ok") => balanced
                /\ task[t].status = "Ok" =>
                       total_amount(task[t].promises) = total_amount(task[t].proofs)
                /\ (task[t].pc = "done" /\ ~balanced) =>
                       /\ task[t].status \in {"SwapAmountMismatch", "ProofAlreadyUsed",
                                              "SwapHasDuplicatePromises"}
                       /\ task[t].promises = <<>>
                       /\ ~task[t].wrote
                /\ ( /\ task[t].pc = "done" /\ ~balanced
                     /\ SecretsOf(task[t].proofs) \cap SecretsOf(db_used_proofs) = {}
                     /\ ~has_duplicate_pubkeys(task[t].outputs) )
                   => task[t].status = "SwapAmountMismatch"

\* A swap of unequal totals was refused with SwapAmountMismatch.
C4_Witness ==
    \E t \in Tasks :
        /\ task[t].op = "swap"
        /\ task[t].status = "SwapAmountMismatch"
        /\ total_amount(task[t].proofs) # total_amount(task[t].outputs)
        /\ task[t].proofs # <<>>

\* C5: mint_tokens returns signatures only when the outputs' total equals
\* the amount of the pending invoice.
C5_MintMatchesInvoice ==
    \A t \in Tasks :
        (task[t].op = "mint_tokens" /\ task[t].status = "Ok")
        => total_amount(task[t].outputs) = task[t].invoice.amount

\* C6: the step of mint_tokens in which the backend reports the invoice as
\* unpaid ends the call with InvoiceNotPaidYet and no signatures; the call
\* has written nothing and the step leaves the whole store as it was.
C6_UnpaidMintChangesNothing ==
    [][\A t \in Tasks :
        ( /\ task'[t].op = "mint_tokens"
          /\ task'[t].reply = "false"
          /\ task[t].reply # "false" )
        => /\ task'[t].pc = "done"
           /\ task'[t].status = "InvoiceNotPaidYet"
           /\ task'[t].promises = <<>>
           /\ ~task'[t].wrote
           /\ db_pending_invoices' = db_pending_invoices
           /\ db_used_proofs' = db_used_proofs]_vars

\* A mint_tokens call was told "unpaid" and its invoice is still pending.
C6_Witness ==
    \E t \in Tasks :
        /\ task[t].op = "mint_tokens"
        /\ task[t].reply = "false"
        /\ task[t].pc = "done"
        /\ db_pending_invoices[task[t].key] = task[t].invoice

\* C7: the step in which mint_tokens for key k succeeds leaves k without a
\* pending invoice and changes nothing else in the store; and a mint_tokens
\* call for a key minted with no create_invoice for it since returns
\* InvoiceNotFound.
C7_MintedKeyIsGone ==
    [][\A t \in Tasks :
        /\ ( task[t].pc = "mint_delete_write" /\ task'[t].status = "Ok" )
           => /\ db_pending_invoices'[task[t].key] = NoInvoice
              /\ \A k \in Keys \ {task[t].key} :
                     db_pending_invoices'[k] = db_pending_invoices[k]
              /\ db_used_proofs' = db_used_proofs
        /\ ( /\ task[t].pc = "idle"
             /\ task'[t].op = "mint_tokens"
             /\ task'[t].key \in redeemed )
           => task'[t].status = "InvoiceNotFound"]_vars

\* C8: mint_tokens for a key without a stored pending invoice ends in its
\* first step with InvoiceNotFound: no signatures, no question to the
\* Lightning backend, no write.
C8_MissingInvoiceNotFound ==
    [][\A t \in Tasks :
        ( /\ task[t].pc = "idle"
          /\ task'[t].op = "mint_tokens"
          /\ db_pending_invoices[task'[t].key] = NoInvoice )
        => /\ task'[t].pc = "done"
           /\ task'[t].status = "InvoiceNotFound"
           /\ task'[t].promises = <<>>
           /\ task'[t].reply = "none"
           /\ db_pending_invoices' = db_pending_invoices]_vars

\* A mint_tokens call for a key without pending invoice has ended.
C8_Witness ==
    \E t \in Tasks :
        /\ task[t].op = "mint_tokens"
        /\ task[t].status = "InvoiceNotFound"
        /\ db_pending_invoices[task[t].key] = NoInvoice

\* C9: a melt whose pay_invoice failed has ended with the backend's error,
\* without change signatures and without a write; none of its proofs is in
\* the spent set.
C9_FailedPaymentSpendsNothing ==
    \A t \in Tasks :
        (task[t].op = "melt" /\ task[t].reply = "error")
        => /\ task[t].pc = "done"
           /\ task[t].status = "Lightning"
           /\ task[t].promises = <<>>
           /\ ~task[t].wrote
           /\ Range(task[t].proofs) \cap Range(db_used_proofs) = {}

\* A melt with proofs and change outputs saw its payment fail.
C9_Witness ==
    \E t \in Tasks :
        /\ task[t].op = "melt"
        /\ task[t].reply = "error"
        /\ task[t].proofs # <<>>
        /\ task[t].outputs # <<>>

\* C10: melt gets to pay_invoice only when the proofs' total in msat is at
\* least amount_msat plus fee_reserve(amount_msat).
C10_MeltCoversAmountAndFee ==
    \A t \in Tasks :
        (task[t].op = "melt" /\ (task[t].pc \in {"melt_pay", "melt_add"} \/ task[t].reply # "none"))
        => total_amount(task[t].proofs) * 1000 >=
               amount_milli_satoshis(task[t].pr) + fee_reserve(amount_milli_satoshis(task[t].pr))

\* C11: melt returns success only when the change signatures total the
\* proofs' total minus floor(amount_msat / 1000).
C11_MeltChangeIsTheRemainder ==
    \A t \in Tasks :
        (task[t].op = "melt" /\ task[t].status = "Ok")
        => total_amount(task[t].promises) =
               total_amount(task[t].proofs) - (amount_milli_satoshis(task[t].pr) \div 1000)

\* C12: a melt whose pay_invoice succeeded does not end before its proofs
\* are in the spent set: a failing add_used_proofs is retried, not returned.
C12_PaidMeltSpendsItsProofs ==
    \A t \in Tasks :
        (task[t].op = "melt" /\ task[t].reply = "paid" /\ task[t].pc = "done")
        => /\ task[t].wrote
           /\ Range(task[t].proofs) \subseteq Range(get_used_proofs(db_used_proofs))

\* The task that made a store call in this step.
Called(t, op) == task[t].pc = "idle" /\ task'[t].op = op

\* C13: add_used_proofs with a secret that is already in the spent set fails
\* with ProofAlreadyUsed and leaves the spent set unchanged; otherwise, when
\* it succeeds, the spent set is the old one plus every secret of the call.
C13_AddUsedProofsAllOrNothing ==
    [][\A t \in Tasks :
        Called(t, "add_used_proofs") =>
            IF SecretsOf(task'[t].proofs) \cap SecretsOf(db_used_proofs) # {}
            THEN /\ task'[t].status = "ProofAlreadyUsed"
                 /\ db_used_proofs' = db_used_proofs
            ELSE task'[t].status = "Ok" =>
                     SecretsOf(db_used_proofs') =
                         SecretsOf(db_used_proofs) \cup SecretsOf(task'[t].proofs)]_vars

\* C14: the spent set holds the secrets of every successful add_used_proofs
\* so far, and get_used_proofs returns them all.
C14_SpentSetOnlyGrows ==
    /\ ever_spent \subseteq SecretsOf(db_used_proofs)
    /\ \A t \in Tasks :
           (task[t].op = "get_used_proofs" /\ task[t].pc = "done")
           => ever_spent \subseteq SecretsOf(task[t].proofs)

\* C15: a successful add_pending_invoice(k, inv) stores inv under k, whether
\* or not k was stored, and leaves every other key's pending invoice as it
\* was; get_pending_invoice(k) returns the invoice stored under k; and the
\* invoice stored under k changes only in an add or a remove of k.
C15_AddThenGetPendingInvoice ==
    [][/\ \A t \in Tasks :
            /\ (Called(t, "add_pending_invoice") /\ task'[t].status = "Ok")
               => /\ db_pending_invoices'[task'[t].key] = task'[t].invoice
                  /\ \A k \in Keys \ {task'[t].key} :
                         db_pending_invoices'[k] = db_pending_invoices[k]
            /\ Called(t, "get_pending_invoice")
               => /\ db_pending_invoices' = db_pending_invoices
                  /\ IF db_pending_invoices[task'[t].key] # NoInvoice
                     THEN /\ task'[t].status = "Ok"
                          /\ task'[t].invoice = db_pending_invoices[task'[t].key]
                     ELSE task'[t].status = "InvoiceNotFound"
       /\ \A k \in Keys :
            db_pending_invoices'[k] # db_pending_invoices[k]
            => \E t \in Tasks :
                   /\ task'[t].key = k
                   /\ \/ Called(t, "add_pending_invoice")
                      \/ Called(t, "remove_pending_invoice")]_vars

\* An add replaced the invoice stored under its key while another key
\* held an invoice, which is still there.
C15_Witness ==
    \E t \in Tasks :
        /\ task[t].op = "add_pending_invoice"
        /\ task[t].status = "Ok"
        /\ task[t].invoices[task[t].key] \notin {NoInvoice, task[t].invoice}
        /\ \E k \in Keys \ {task[t].key} :
               /\ db_pending_invoices[k] # NoInvoice
               /\ db_pending_invoices[k] = task[t].invoices[k]

\* C16: remove_pending_invoice(k) fails only when the store does; when it
\* succeeds k has no pending invoice, every other key's pending invoice and
\* the spent set are as before, and if k had none the store is as before.
C16_DeleteIsIdempotent ==
    [][\A t \in Tasks :
        Called(t, "remove_pending_invoice") =>
            /\ task'[t].status \in {"Ok", "StorageError"}
            /\ task'[t].status = "StorageError" =>
                   db_pending_invoices' = db_pending_invoices
            /\ task'[t].status = "Ok" =>
                   /\ db_pending_invoices'[task'[t].key] = NoInvoice
                   /\ \A k \in Keys \ {task'[t].key} :
                          db_pending_invoices'[k] = db_pending_invoices[k]
                   /\ db_pending_invoices[task'[t].key] = NoInvoice =>
                          db_pending_invoices' = db_pending_invoices
            /\ db_used_proofs' = db_used_proofs]_vars

\* A remove of a key without pending invoice succeeded while another key
\* held one.
C16_Witness ==
    \E t \in Tasks :
        /\ task[t].op = "remove_pending_invoice"
        /\ task[t].status = "Ok"
        /\ task[t].invoices[task[t].key] = NoInvoice
        /\ \E k \in Keys : db_pending_invoices[k] # NoInvoice

\* Two positions of xs agree in the field read by f.
Repeats(xs, f(_)) == \E i, j \in DOMAIN xs : i # j /\ f(xs[i]) = f(xs[j])

SecretOf(p) == p.secret

B_Of(m) == m.b_

\* The swap request of task t passes every check the code makes.
SwapPasses(t) ==
    /\ task[t].op = "swap"
    /\ task[t].fresh
    /\ ~Repeats(task[t].outputs, B_Of)
    /\ total_amount(task[t].proofs) = total_amount(task[t].outputs)

\* C17: a swap with two input proofs of the same secret (and nothing else
\* wrong) ends with SwapDuplicateProofs, without signatures and without a
\* write to the spent set.
C17_SwapRefusesRepeatedSecret ==
    \A t \in Tasks :
        (SwapPasses(t) /\ Repeats(task[t].proofs, SecretOf))
        => /\ task[t].pc = "done"
           /\ task[t].status = "SwapDuplicateProofs"
           /\ task[t].promises = <<>>
           /\ ~task[t].wrote

\* C18: a swap with an input proof whose C is not the keyset key of its
\* amount times HashToCurve(secret) (and nothing else wrong) ends with
\* InvalidProof, without signatures and without a write to the spent set.
C18_SwapRefusesForgedProof ==
    \A t \in Tasks :
        ( /\ SwapPasses(t)
          /\ ~Repeats(task[t].proofs, SecretOf)
          /\ \E p \in Range(task[t].proofs) :
                 ~verify(private_keys[p.amount], p.c, p.secret) )
        => /\ task[t].pc = "done"
           /\ task[t].status = "InvalidProof"
           /\ task[t].promises = <<>>
           /\ ~task[t].wrote

\* C19: a swap with two outputs of the same B_ has ended in failure, without
\* signatures and without a write to the spent set; the failure is
\* SwapHasDuplicatePromises unless an input proof was found spent first.
C19_SwapRefusesRepeatedOutput ==
    \A t \in Tasks :
        (task[t].op = "swap" /\ Repeats(task[t].outputs, B_Of))
        => /\ task[t].pc = "done"
           /\ task[t].status \in {"SwapHasDuplicatePromises", "ProofAlreadyUsed"}
           /\ task[t].promises = <<>>
           /\ ~task[t].wrote
           /\ SecretsOf(task[t].proofs) \cap SecretsOf(db_used_proofs) = {}
              => task[t].status = "SwapHasDuplicatePromises"

\* A swap of balanced totals was refused for its repeated B_ alone.
C19_Witness ==
    \E t \in Tasks :
        /\ task[t].op = "swap"
        /\ task[t].status = "SwapHasDuplicatePromises"
        /\ Repeats(task[t].outputs, B_Of)
        /\ task[t].proofs # <<>>
        /\ total_amount(task[t].proofs) = total_amount(task[t].outputs)

\* C20: fee_reserve(amount_msat) is the larger of
\* floor(amount_msat * fee_percent / 100) and fee_reserve_min.
C20_FeeReserveIsTheFloor ==
    \A t \in Tasks :
        (task[t].op = "fee_reserve" /\ task[t].pc = "done")
        => task[t].fee =
               Max((task[t].amount * lightning_fee_config.fee_percent) \div 100,
                   lightning_fee_config.fee_reserve_min)

RECURSIVE Sum(_)
Sum(ns) == IF ns = <<>> THEN 0 ELSE Head(ns) + Sum(Tail(ns))

\* C21: for an amount above 0, split_amount returns powers of two in strictly
\* ascending order (so none twice) that sum to the amount.
C21_SplitIsTheSetBits ==
    \A t \in Tasks :
        (task[t].op = "split_amount" /\ task[t].pc = "done" /\ task[t].amount > 0)
        => LET parts == task[t].parts
           IN  /\ \A i \in DOMAIN parts : \E k \in 0..30 : parts[i] = 2^k
               /\ \A i, j \in DOMAIN parts : i < j => parts[i] < parts[j]
               /\ Sum(parts) = task[t].amount

\* split_amount(13) returned, as in test_split.
C21_Witness ==
    \E t \in Tasks :
        /\ task[t].op = "split_amount"
        /\ task[t].pc = "done"
        /\ task[t].amount = 13
        /\ task[t].parts = <<1, 4, 8>>

\* C22: a swap or melt cancelled before its add_used_proofs has committed
\* has written nothing and returns no signatures: none of its proofs is in
\* the spent set and no pending invoice is stored.
C22_CancelledSpendWritesNothing ==
    \A t \in Tasks :
        task[t].status = "Cancelled"
        => /\ Spending(t)
           /\ ~task[t].wrote
           /\ task[t].promises = <<>>
           /\ SecretsOf(task[t].proofs) \cap SecretsOf(get_used_proofs(db_used_proofs)) = {}
           /\ db_pending_invoices = NoInvoices

\* A melt with proofs was cancelled after its payment, while another
\* request's proofs are in the spent set.
C22_Witness ==
    \E t \in Tasks :
        /\ task[t].status = "Cancelled"
        /\ task[t].op = "melt"
        /\ task[t].reply = "paid"
        /\ task[t].proofs # <<>>
        /\ db_used_proofs # <<>>

\* C23: a mint_tokens or swap call that does not return success has written
\* nothing; a failed mint_tokens that had found its invoice leaves it stored.
C23_FailedCallWritesNothing ==
    \A t \in Tasks :
        ( /\ task[t].op \in {"mint_tokens", "swap"}
          /\ task[t].pc = "done"
          /\ task[t].status # "Ok" )
        => /\ ~task[t].wrote
           /\ (task[t].op = "mint_tokens" /\ task[t].invoice # NoInvoice)
              => db_pending_invoices[task[t].key] = task[t].invoice

\* C24: when the caller takes the success of a swap or melt, every input
\* proof is in the spent set; when it takes the success of a mint_tokens,
\* the key has no pending invoice; other calls may be in flight.
C24_WriteStandsAtReturn ==
    [][\A t \in Tasks :
        ( task[t].pc = "done" /\ task[t].status = "Ok" /\ task'[t].pc = "idle" )
        => /\ Spending(t)
              => SecretsOf(task[t].proofs)
                     \subseteq SecretsOf(get_used_proofs(db_used_proofs))
           /\ task[t].op = "mint_tokens"
              => db_pending_invoices[task[t].key] = NoInvoice]_vars

\* C25: create_invoice(key, amount) asks Lightning first and persists
\* second.  A call the backend refuses ends with its error and writes
\* nothing; a call the backend serves has its invoice, of that amount and
\* of a payment request issued by the backend, and writes nothing yet; the
\* write that ends the call with success stores exactly that invoice under
\* key, and amount, payment request and key stay those of the call.
C25_CreateInvoicePersistsWhatLightningGave ==
    [][\A t \in Tasks :
        /\ ( Called(t, "create_invoice") /\ task'[t].pc = "done" )
           => /\ task'[t].status = "Lightning" /\ ~task'[t].wrote
              /\ db_pending_invoices' = db_pending_invoices
              /\ ln_issued' = ln_issued
        /\ ( Called(t, "create_invoice") /\ task'[t].pc # "done" )
           => /\ task'[t].invoice.amount = task'[t].amount
              /\ task'[t].invoice.payment_request \in ln_issued' \ ln_issued
              /\ db_pending_invoices' = db_pending_invoices
        /\ ( task[t].pc = "create_write" /\ task'[t].status = "Ok" )
           => /\ db_pending_invoices'[task[t].key] =
                     [amount |-> task[t].amount,
                      payment_request |-> task[t].invoice.payment_request]
              /\ task[t].invoice.payment_request \in ln_issued
              /\ task'[t].key = task[t].key
              /\ task'[t].invoice = task[t].invoice
              /\ task'[t].wrote]_vars

\* A create_invoice has succeeded for one key while the other key has a
\* pending invoice too.
C25_Witness ==
    \E t \in Tasks :
        /\ task[t].op = "create_invoice" /\ task[t].pc = "done"
        /\ task[t].status = "Ok" /\ task[t].amount > 0
        /\ db_pending_invoices[task[t].key] = task[t].invoice
        /\ \E k \in Keys \ {task[t].key} : db_pending_invoices[k] # NoInvoice

\* C26: a melt whose proofs repeat a secret, hold a secret that was spent
\* when it started, or hold a proof whose C is not the keyset key of its
\* amount times HashToCurve(secret), has ended without calling pay_invoice
\* and without a write to the spent set.
C26_MeltChecksBeforePaying ==
    \A t \in Tasks :
        ( /\ task[t].op = "melt"
          /\ \/ Repeats(task[t].proofs, SecretOf)
             \/ ~task[t].fresh
             \/ \E p \in Range(task[t].proofs) :
                    ~verify(private_keys[p.amount], p.c, p.secret) )
        => /\ task[t].pc = "done"
           /\ task[t].reply = "none"
           /\ ~task[t].wrote

\* C27: the invoice of one create_invoice is redeemed at most once: no two
\* mint_tokens calls have succeeded on the same invoice, overlapping or not.
C27_InvoiceRedeemedOnce ==
    \A t, u \in Tasks :
        ( /\ t # u
          /\ task[t].op = "mint_tokens" /\ task[u].op = "mint_tokens"
          /\ task[t].pc = "done" /\ task[u].pc = "done"
          /\ task[t].key = task[u].key
          /\ task[t].invoice = task[u].invoice )
        => ~(task[t].status = "Ok" /\ task[u].status = "Ok")

\* C28: of two overlapping swap or melt calls whose proofs share a secret,
\* at most one has succeeded, and at most one, if both are melts, has had
\* its invoice paid.
C28_SharedSecretFundsOneOutcome ==
    \A t, u \in Tasks :
        ( /\ t # u
          /\ Spending(t) /\ Spending(u)
          /\ u \in task[t].overlap
          /\ SecretsOf(task[t].proofs) \cap SecretsOf(task[u].proofs) # {} )
        => /\ ~(task[t].status = "Ok" /\ task[u].status = "Ok")
           /\ ~( /\ task[t].op = "melt" /\ task[u].op = "melt"
                 /\ task[t].reply = "paid" /\ task[u].reply = "paid" )

\* C29: when two overlapping calls have both completed their store writes,
\* the store reflects both: a create_invoice's invoice is stored under its
\* key and a mint_tokens' key has none (the keys being distinct), and the
\* proofs of a swap or melt are in the spent set.
C29_ConcurrentWritesBothLand ==
    \A t, u \in Tasks :
        ( /\ t # u
          /\ u \in task[t].overlap
          /\ task[t].pc = "done" /\ task[u].pc = "done"
          /\ task[t].wrote /\ task[u].wrote )
        => /\ ( /\ task[t].op = "create_invoice"
                /\ task[u].op \in {"create_invoice", "mint_tokens"}
                /\ task[t].key # task[u].key )
              => db_pending_invoices[task[t].key] = task[t].invoice
           /\ ( /\ task[t].op = "mint_tokens"
                /\ task[u].op = "create_invoice"
                /\ task[t].key # task[u].key )
              => db_pending_invoices[task[t].key] = NoInvoice
           /\ ( Spending(t) /\ Spending(u) )
              => SecretsOf(task[t].proofs)
                     \subseteq SecretsOf(get_used_proofs(db_used_proofs))

\* C30: over any sequence of create_invoice, mint_tokens, swap and melt
\* calls, the signatures issued amount to no more than the paid invoices
\* redeemed by mint_tokens plus the proofs written to the spent set.
C30_ValueIsConserved == ledger.issued <= ledger.redeemed + ledger.spent

====
